---- MODULE Spec2Model ----
(***************************************************************************)
(* A model of the photo ingestion pipeline of packages/image-processing:   *)
(* format classification (batch.rs), the per-item record construction      *)
(* (batch.rs, raw.rs), the bounded-concurrency batch scheduler (batch.rs,  *)
(* raw.rs), the tone-curve construction and the histogram sampler (raw.rs), *)
(* the orientation transforms (orientation.rs, batch.rs, raw.rs), the      *)
(* embedding model cell (clip.rs), the stages of one item and its run      *)
(* statement by statement (batch.rs, raw.rs, thumbnails.rs).               *)
(*                                                                         *)
(* Strings that the code takes apart (paths, extensions) are sequences of  *)
(* one-character strings.  Option<T> is a sequence of length 0 or 1.       *)
(* CDF values, f64 in the code, are exact fractions count/total compared   *)
(* by cross-multiplication.                                                *)
(***************************************************************************)
EXTENDS Integers, Sequences, FiniteSets, TLC

VARIABLES
  entry,           \* the entrypoint called: process_photo, process_photos_batch, ...
  file_paths,      \* argument file_paths
  relative_paths,  \* argument relative_paths
  num_cpus,        \* the hardware parallelism, 0 until the call reads it
  phase,           \* "called", "running", "returned", "panicked"
  pool,            \* number of worker threads of the pool the batch runs on
  status,          \* per item: "queued", "running", "done"
  slots,           \* per item: the collected result (Option)
  output,          \* the value returned to the caller
  disk,            \* thumbnail files written so far
  answers,         \* per item: what its collaborators answered (Option)
  srcHist,         \* tone curve: histogram of the source raster (one channel)
  tgtHist,         \* tone curve: histogram of the target raster (one channel)
  curve,           \* tone curve built from the two
  orig,            \* orientation: the raster given
  img,             \* orientation: the raster after the transforms applied so far
  codes,           \* orientation: the orientation codes applied so far
  query_path,      \* classifier: the path asked about
  file_type,       \* classifier: the answer of detect_file_type, "" before the call
  supported,       \* classifier: the answer of is_supported_image (Option)
  extensions,      \* classifier: the answer of get_supported_extensions (Option)
  decoder,         \* classifier: the decoder process_standard_image chose (Option)
  clip_pc,         \* embedding: per caller, where it is in batch_generate_clip_embeddings
  cell,            \* embedding: CLIP_IMAGE_MODEL, "empty", "initializing" or "set"
  instances,       \* embedding: the ImageEmbedding instances created so far
  holder,          \* embedding: the caller holding the model's Mutex, 0 when free
  poisoned,        \* embedding: a holder of the Mutex has panicked
  item_path,       \* stages: the file path of the item followed
  item_env,        \* stages: what the collaborators of the item answer
  stages,          \* stages: the stages the item has run so far, in order
  run_path,        \* run: the file path of the item whose run is followed
  run_env,         \* run: what the collaborators of the item answer
  pc,              \* run: the statement the run is about to execute
  memory,          \* run: the allocations of the run that are live
  written,         \* run: the thumbnail files written, in order
  requests,        \* run: the embedding requests made, in order
  run_result,      \* run: the success flag of the record returned (Option)
  raster_pixels,   \* sampler: the number of pixels of the raster
  sample_count     \* sampler: the pixels counted per channel (Option)

pipeVars == <<entry, file_paths, relative_paths, num_cpus, phase, pool, status, slots,
              output, disk, answers>>
toneVars == <<srcHist, tgtHist, curve>>
orientVars == <<orig, img, codes>>
classVars == <<query_path, file_type, supported, extensions, decoder>>
clipVars == <<clip_pc, cell, instances, holder, poisoned>>
stageVars == <<item_path, item_env, stages>>
runVars == <<run_path, run_env, pc, memory, written, requests, run_result>>
sampleVars == <<raster_pixels, sample_count>>
vars == <<pipeVars, toneVars, orientVars, classVars, clipVars, stageVars, runVars,
          sampleVars>>

\* what the actions of one part of the model leave alone
notPipe == <<toneVars, orientVars, classVars, clipVars, stageVars, runVars, sampleVars>>
notTone == <<pipeVars, orientVars, classVars, clipVars, stageVars, runVars, sampleVars>>
notOrient == <<pipeVars, toneVars, classVars, clipVars, stageVars, runVars, sampleVars>>
notClass == <<pipeVars, toneVars, orientVars, clipVars, stageVars, runVars, sampleVars>>
notClip == <<pipeVars, toneVars, orientVars, classVars, stageVars, runVars, sampleVars>>
notStage == <<pipeVars, toneVars, orientVars, classVars, clipVars, runVars, sampleVars>>
notRun == <<pipeVars, toneVars, orientVars, classVars, clipVars, stageVars, sampleVars>>
notSample == <<pipeVars, toneVars, orientVars, classVars, clipVars, stageVars, runVars>>

----------------------------------------------------------------------------
(* Option<T> *)

None == <<>>
Some(x) == <<x>>
IsSome(o) == o # <<>>
Unwrap(o) == o[1]

Min(a, b) == IF a < b THEN a ELSE b
Abs(x) == IF x < 0 THEN -x ELSE x

----------------------------------------------------------------------------
(* Paths: std::path::Path as the code uses it *)

RECURSIVE StripTrailingSlashes(_)
StripTrailingSlashes(p) ==
  IF Len(p) > 1 /\ p[Len(p)] = "/" THEN StripTrailingSlashes(SubSeq(p, 1, Len(p) - 1))
  ELSE p

\* the largest index of character c in s, 0 when there is none
LastIndexOf(s, c) ==
  LET I == {i \in 1..Len(s) : s[i] = c}
  IN IF I = {} THEN 0 ELSE CHOOSE i \in I : \A j \in I : j <= i

\* Path::file_name: the final component, None for "", "/" and a final ".."
file_name(p) ==
  LET q == StripTrailingSlashes(p)
      k == LastIndexOf(q, "/")
      n == SubSeq(q, k + 1, Len(q))
  IN IF n = <<>> \/ n = <<".", ".">> THEN None ELSE Some(n)

\* Path::extension: the part of the file name after its last dot; None when the
\* name has no dot or only a leading one
extension(p) ==
  LET f == file_name(p)
  IN IF ~IsSome(f) THEN None
     ELSE LET n == Unwrap(f)
              k == LastIndexOf(n, ".")
          IN IF k <= 1 THEN None ELSE Some(SubSeq(n, k + 1, Len(n)))

\* Path::file_stem: the file name without its extension
file_stem(p) ==
  LET f == file_name(p)
  IN IF ~IsSome(f) THEN None
     ELSE LET n == Unwrap(f)
              k == LastIndexOf(n, ".")
          IN IF k <= 1 THEN Some(n) ELSE Some(SubSeq(n, 1, k - 1))

UpperCase ==
  <<"A", "B", "C", "D", "E", "F", "G", "H", "I", "J", "K", "L", "M",
    "N", "O", "P", "Q", "R", "S", "T", "U", "V", "W", "X", "Y", "Z">>
LowerCase ==
  <<"a", "b", "c", "d", "e", "f", "g", "h", "i", "j", "k", "l", "m",
    "n", "o", "p", "q", "r", "s", "t", "u", "v", "w", "x", "y", "z">>

to_lowercase_char(c) ==
  IF \E i \in 1..Len(UpperCase) : UpperCase[i] = c
  THEN LowerCase[CHOOSE i \in 1..Len(UpperCase) : UpperCase[i] = c]
  ELSE c

to_uppercase_char(c) ==
  IF \E i \in 1..Len(LowerCase) : LowerCase[i] = c
  THEN UpperCase[CHOOSE i \in 1..Len(LowerCase) : LowerCase[i] = c]
  ELSE c

to_lowercase(s) == [i \in 1..Len(s) |-> to_lowercase_char(s[i])]
to_uppercase(s) == [i \in 1..Len(s) |-> to_uppercase_char(s[i])]

----------------------------------------------------------------------------
(* FormatClassifier *)

RAW_EXTENSIONS ==
  {
    <<".","c","r","2">>, <<".","c","r","3">>, <<".","n","e","f">>, <<".","a","r","w">>,
    <<".","d","n","g">>, <<".","r","a","f">>, <<".","o","r","f">>, <<".","r","w","2">>,
    <<".","p","e","f">>, <<".","s","r","w">>, <<".","x","3","f">>, <<".","3","f","r">>,
    <<".","i","i","q">>, <<".","r","w","l">>
  }

STANDARD_EXTENSIONS ==
  {
    <<".","j","p","g">>, <<".","j","p","e","g">>, <<".","p","n","g">>, <<".","g","i","f">>,
    <<".","w","e","b","p">>, <<".","b","m","p">>, <<".","t","i","f","f">>,
    <<".","t","i","f">>
  }

HEIF_EXTENSIONS ==
  {
    <<".","h","e","i","c">>, <<".","h","e","i","f">>
  }

\* the dot-prefixed lower-cased extension, "" when the path has none
DotLowerExt(file_path) ==
  LET e == extension(file_path)
  IN IF IsSome(e) THEN <<".">> \o to_lowercase(Unwrap(e)) ELSE <<>>

\* variant: the extension is compared as it is written
detect_file_type_case_sensitive(file_path) ==
  LET e == extension(file_path)
      ext == IF IsSome(e) THEN <<".">> \o Unwrap(e) ELSE <<>>
  IN IF ext \in RAW_EXTENSIONS THEN "Raw"
     ELSE IF ext \in HEIF_EXTENSIONS THEN "Heif"
     ELSE IF ext \in STANDARD_EXTENSIONS THEN "Standard"
     ELSE "Unsupported"

detect_file_type(file_path) ==
  LET ext == DotLowerExt(file_path)
  IN IF ext \in RAW_EXTENSIONS THEN "Raw"
     ELSE IF ext \in HEIF_EXTENSIONS THEN "Heif"
     ELSE IF ext \in STANDARD_EXTENSIONS THEN "Standard"
     ELSE "Unsupported"

is_supported_image(file_path) == detect_file_type(file_path) # "Unsupported"

\* the Vec of the three lists one after the other, as the set of its elements
get_supported_extensions ==
  RAW_EXTENSIONS \cup HEIF_EXTENSIONS \cup STANDARD_EXTENSIONS

get_raw_format(file_path) ==
  LET e == extension(file_path)
  IN IF IsSome(e) THEN Some(to_uppercase(Unwrap(e))) ELSE None

\* heif.rs: a lower-cased ends-with test on the whole path
EndsWith(s, t) == Len(s) >= Len(t) /\ SubSeq(s, Len(s) - Len(t) + 1, Len(s)) = t

is_heif_file(file_path) ==
  LET lower == to_lowercase(file_path)
  IN EndsWith(lower, <<".","h","e","i","c">>) \/ EndsWith(lower, <<".","h","e","i","f">>)

----------------------------------------------------------------------------
(* RasterBuffer: a sequence of rows, each a sequence of pixels; the transforms *)
(* are those of image::DynamicImage that the orientation code calls            *)

Height(r) == Len(r)
Width(r) == Len(r[1])

fliph(r) == [y \in 1..Height(r) |-> [x \in 1..Width(r) |-> r[y][Width(r) + 1 - x]]]
flipv(r) == [y \in 1..Height(r) |-> [x \in 1..Width(r) |-> r[Height(r) + 1 - y][x]]]
rotate180(r) ==
  [y \in 1..Height(r) |-> [x \in 1..Width(r) |-> r[Height(r) + 1 - y][Width(r) + 1 - x]]]
\* clockwise quarter turn: the pixel at (x, y) goes to (h - 1 - y, x)
rotate90(r) == [y \in 1..Width(r) |-> [x \in 1..Height(r) |-> r[Height(r) + 1 - x][y]]]
\* counter-clockwise quarter turn: the pixel at (x, y) goes to (y, w - 1 - x)
rotate270(r) == [y \in 1..Width(r) |-> [x \in 1..Height(r) |-> r[x][Width(r) + 1 - y]]]

\* variant: code 8 turns the same way as code 6
apply_orientation_8_as_6(r, orientation) ==
  IF orientation = Some(2) THEN fliph(r)
  ELSE IF orientation = Some(3) THEN rotate180(r)
  ELSE IF orientation = Some(4) THEN flipv(r)
  ELSE IF orientation = Some(5) THEN fliph(rotate270(r))
  ELSE IF orientation = Some(6) THEN rotate90(r)
  ELSE IF orientation = Some(7) THEN fliph(rotate90(r))
  ELSE IF orientation = Some(8) THEN rotate90(r)
  ELSE r

\* variant: the table is shifted by one, code 1 flips and the rest fall through
apply_orientation_shifted(r, orientation) ==
  IF orientation = Some(1) THEN fliph(r)
  ELSE IF orientation = Some(2) THEN rotate180(r)
  ELSE IF orientation = Some(3) THEN flipv(r)
  ELSE IF orientation = Some(4) THEN fliph(rotate270(r))
  ELSE IF orientation = Some(5) THEN rotate90(r)
  ELSE IF orientation = Some(6) THEN fliph(rotate90(r))
  ELSE IF orientation = Some(7) THEN rotate270(r)
  ELSE r

\* orientation.rs and batch.rs: orientation is an Option<u32>
apply_orientation(r, orientation) ==
  IF orientation = Some(2) THEN fliph(r)
  ELSE IF orientation = Some(3) THEN rotate180(r)
  ELSE IF orientation = Some(4) THEN flipv(r)
  ELSE IF orientation = Some(5) THEN fliph(rotate270(r))
  ELSE IF orientation = Some(6) THEN rotate90(r)
  ELSE IF orientation = Some(7) THEN fliph(rotate90(r))
  ELSE IF orientation = Some(8) THEN rotate270(r)
  ELSE r

\* raw.rs: the same table inlined in process_raw_complete_internal
raw_apply_orientation(r, orientation) ==
  IF IsSome(orientation)
  THEN LET orient == Unwrap(orientation)
       IN CASE orient = 2 -> fliph(r)
            [] orient = 3 -> rotate180(r)
            [] orient = 4 -> flipv(r)
            [] orient = 5 -> fliph(rotate270(r))
            [] orient = 6 -> rotate90(r)
            [] orient = 7 -> fliph(rotate90(r))
            [] orient = 8 -> rotate270(r)
            [] OTHER -> r
  ELSE r

\* the raster a decoder yields for a w x h image; its pixels play no part in
\* the record, so they are all 0 here
Decoded(w, h) == [y \in 1..h |-> [x \in 1..w |-> 0]]

----------------------------------------------------------------------------
(* The collaborators' outcomes for one item: what the file system, the       *)
(* metadata extractor, the decoders, the thumbnail writer and the embedding  *)
(* provider answer.  Error texts are tokens; format!(prefix, e) is a pair.   *)

Format(prefix, e) == <<prefix, e>>

\* fs::metadata: Err, or Ok with len and created()/modified() that can fail
FsOutcomes ==
  { [ok |-> FALSE, len |-> 0, created |-> None, modified |-> None],
    [ok |-> TRUE, len |-> 2048, created |-> Some(1000), modified |-> Some(2000)],
    [ok |-> TRUE, len |-> 2048, created |-> None, modified |-> Some(2000)] }

\* extract_exif_internal: None, or ExifData of which only orientation is read
ExifOutcomes ==
  { None, Some([orientation |-> None]) }
    \cup { Some([orientation |-> Some(o)]) : o \in {1, 3, 6, 9} }

\* decode_heif / ImageReader::open + decode
DecodeOutcomes ==
  { [kind |-> "ok", w |-> 2, h |-> 1, format |-> Some("jpeg")],
    [kind |-> "ok", w |-> 1, h |-> 1, format |-> None],
    [kind |-> "err", w |-> 0, h |-> 0, format |-> None],
    [kind |-> "panic", w |-> 0, h |-> 0, format |-> None] }

\* the stage of the RAW path that fails, "none" when all succeed
RawStages ==
  <<"read1", "open1", "read2", "open2", "unpack", "process", "buffer">>
RawOutcomes ==
  { [fail |-> "none", w |-> 2, h |-> 1] }
    \cup { [fail |-> RawStages[k], w |-> 0, h |-> 0] : k \in 1..Len(RawStages) }

\* extract_preview_with_jpeg: None (no thumbnail, no JPEG one, or one that does
\* not decode), or the decoded preview: its dimensions and the level that its
\* pixels have
PreviewOutcomes ==
  { None, Some([w |-> 1200, h |-> 800, level |-> 2]),
    Some([w |-> 1200, h |-> 799, level |-> 2]) }

\* the thumbnail size whose directory creation or save fails, 0 when none does
ThumbOutcomes == 0..4

\* generate_clip_embedding_from_image: is the provider available
ClipOutcomes == BOOLEAN

\* an item of the standard path consults the decoders and never the RAW
\* library, an item of the RAW path the reverse; the collaborator that is not
\* consulted is given one fixed answer
Envs ==
  [fs : FsOutcomes, exif : ExifOutcomes, decode : DecodeOutcomes,
   raw : {[fail |-> "none", w |-> 2, h |-> 1]}, preview : {None},
   thumb : ThumbOutcomes, clip : ClipOutcomes]
  \cup
  [fs : FsOutcomes, exif : ExifOutcomes,
   decode : {[kind |-> "ok", w |-> 2, h |-> 1, format |-> Some("jpeg")]},
   raw : RawOutcomes, preview : PreviewOutcomes, thumb : ThumbOutcomes,
   clip : ClipOutcomes]

----------------------------------------------------------------------------
(* Thumbnails (thumbnails.rs) *)

ThumbnailSizeNames == <<"tiny", "small", "medium", "large">>

\* Path::with_extension(""): the path cut at the end of its file stem; a path
\* with no file name is left as it is
with_extension_empty(p) ==
  LET stem == file_stem(p)
      q == StripTrailingSlashes(p)
  IN IF ~IsSome(stem) THEN p
     ELSE SubSeq(q, 1, LastIndexOf(q, "/") + Len(Unwrap(stem)))

thumbnails_dir == "thumbs"

\* generate_all_thumbnails_internal: the sizes are written in order and the
\* first failure returns; yields the files written and whether it failed
generate_all_thumbnails_internal(relative_path, thumbFail) ==
  LET path_without_ext == with_extension_empty(relative_path)
      last == IF thumbFail = 0 THEN Len(ThumbnailSizeNames) ELSE thumbFail - 1
  IN [files |-> { <<thumbnails_dir, ThumbnailSizeNames[k], path_without_ext, ".webp">> :
                    k \in 1..last },
      ok |-> thumbFail = 0]

\* generate_phash_from_image: a deterministic function of the raster
generate_phash_from_image(r) == <<"phash", r>>

\* generate_clip_embedding_from_image(img): Some(vector) when the provider
\* answers, None otherwise; the vector is a token naming what was embedded
generate_clip_embedding_from_image(what, available) ==
  IF available THEN Some(<<"embedding", what>>) ELSE None

----------------------------------------------------------------------------
(* Tone curve (raw.rs).  A histogram is a function on the levels            *)
(* 0..Levels-1; the code has 256 levels.  A CDF value is the fraction        *)
(* num/den, which the code holds as the f64 cumsum * (1.0 / total).          *)

Levels == 4     \* the number of intensity levels of the model
MaxCount == 1   \* the largest count of one histogram bucket

LevelSet == 0..(Levels - 1)
RECURSIVE SumTo(_, _)
SumTo(histogram, i) == IF i < 0 THEN 0 ELSE histogram[i] + SumTo(histogram, i - 1)

\* the histograms of the rasters that have a pixel
Histograms == {h \in [LevelSet -> 0..MaxCount] : SumTo(h, Levels - 1) > 0}

RECURSIVE GCD(_, _)
GCD(a, b) == IF b = 0 THEN a ELSE GCD(b, a % b)

\* the fraction n/d in lowest terms
Fraction(n, d) == [num |-> n \div GCD(n, d), den |-> d \div GCD(n, d)]

histogram_to_cdf(histogram) ==
  LET total == SumTo(histogram, Levels - 1)
  IN IF total = 0 THEN [i \in LevelSet |-> Fraction(0, 1)]
     ELSE [i \in LevelSet |-> Fraction(SumTo(histogram, i), total)]

\* a < b, and |s - a| < |s - b|, on fractions
Less(a, b) == a.num * b.den < b.num * a.den
CloserTo(s, a, b) ==
  Abs(s.num * a.den - a.num * s.den) * b.den < Abs(s.num * b.den - b.num * s.den) * a.den

\* the binary search of build_tone_curve: the lowest level whose target CDF
\* value is not below source_percentile, or the last level
RECURSIVE LowerBound(_, _, _, _)
LowerBound(target_cdf, source_percentile, low, high) ==
  IF low < high
  THEN LET mid == (low + high) \div 2
       IN IF Less(target_cdf[mid], source_percentile)
          THEN LowerBound(target_cdf, source_percentile, mid + 1, high)
          ELSE LowerBound(target_cdf, source_percentile, low, mid)
  ELSE low

\* variant: the level below is taken when it is farther, not when it is closer
build_tone_curve_reversed(source_cdf, target_cdf) ==
  [i \in LevelSet |->
     LET source_percentile == source_cdf[i]
         low == LowerBound(target_cdf, source_percentile, 0, Levels - 1)
     IN IF low > 0 /\ CloserTo(source_percentile, target_cdf[low], target_cdf[low - 1])
        THEN low - 1
        ELSE low]

\* variant: the level below is also taken when it is exactly as close
build_tone_curve_ties_low(source_cdf, target_cdf) ==
  [i \in LevelSet |->
     LET source_percentile == source_cdf[i]
         low == LowerBound(target_cdf, source_percentile, 0, Levels - 1)
     IN IF low > 0 /\ ~CloserTo(source_percentile, target_cdf[low], target_cdf[low - 1])
        THEN low - 1
        ELSE low]

build_tone_curve(source_cdf, target_cdf) ==
  [i \in LevelSet |->
     LET source_percentile == source_cdf[i]
         low == LowerBound(target_cdf, source_percentile, 0, Levels - 1)
     IN IF low > 0 /\ CloserTo(source_percentile, target_cdf[low - 1], target_cdf[low])
        THEN low - 1
        ELSE low]

\* variant: the step that keeps the count within the target
SampleStepRoundedUp(total_pixels) ==
  IF total_pixels > 500000 THEN (total_pixels + 499999) \div 500000 ELSE 1

\* compute_rgb_histograms_sampled: the step between two pixels counted,
\* (total_pixels / 500_000).max(1) above 500,000 pixels and 1 up to there
SampleStep(total_pixels) ==
  IF total_pixels > 500000
  THEN (IF total_pixels \div 500000 > 1 THEN total_pixels \div 500000 ELSE 1)
  ELSE 1

\* the pixels counted per channel: those at the indices 0, step, 2 * step, ...
\* below total_pixels
SampledPixels(total_pixels) ==
  LET step == SampleStep(total_pixels)
  IN (total_pixels + step - 1) \div step

\* compute_rgb_histograms_sampled for one channel of a raster of at most
\* 500,000 pixels, where the sampling step is 1: every pixel is counted
compute_rgb_histograms_sampled(r) ==
  [l \in LevelSet |->
     Cardinality({xy \in (1..Height(r)) \X (1..Width(r)) : r[xy[1]][xy[2]] = l})]

\* the same for a decoded preview, all of whose pixels have one level: the
\* step is max(total_pixels / 500000, 1) and ceil(total_pixels / step) pixels
\* are counted
PreviewHistogram(preview) ==
  LET sampled == SampledPixels(preview.w * preview.h)
  IN [l \in LevelSet |-> IF l = preview.level THEN sampled ELSE 0]

\* apply_rgb_curves_inplace for one channel
apply_rgb_curves_inplace(r, c) ==
  [y \in 1..Height(r) |-> [x \in 1..Width(r) |-> c[r[y][x]]]]

----------------------------------------------------------------------------
(* Per-item processing.  Each operator yields [kind, rec, files]: kind is    *)
(* "ok" with the record returned and the thumbnail files written, or "panic" *)
(* when the stage unwinds instead of returning.                              *)

NameOf(file_path) ==
  LET f == file_name(file_path) IN IF IsSome(f) THEN Unwrap(f) ELSE <<>>

OrientationOf(exif) == IF IsSome(exif) THEN Unwrap(exif).orientation ELSE None

Millis(t) == IF IsSome(t) THEN Unwrap(t) ELSE 0

Panicked == [kind |-> "panic", rec |-> [success |-> FALSE], files |-> {}]

\* variant: an Err of the thumbnail writer fails the item
FailOnThumbnailError(thumbs, result) ==
  IF thumbs.ok THEN result
  ELSE [result EXCEPT !.success = FALSE,
                      !.error = Some(<<"Failed to save thumbnail: ", "e">>)]

\* batch.rs, raw.rs: `if let Err(e) = generate_all_thumbnails_internal(..)`
\* prints a warning and goes on; the result of the item is what it was
WarnOnly(thumbs, result) == result

\* batch.rs: process_standard_image (JPEG, PNG, ... and HEIF)
process_standard_image(file_path, relative_path, env) ==
  IF ~env.fs.ok
  THEN [kind |-> "ok", files |-> {},
        rec |-> [path |-> relative_path, name |-> NameOf(file_path), size |-> 0,
                 created_at |-> 0, modified_at |-> 0, width |-> None, height |-> None,
                 mime_type |-> None, phash |-> None, clip_embedding |-> None,
                 exif |-> None, is_raw |-> FALSE, raw_format |-> None,
                 raw_status |-> None, raw_error |-> None, success |-> FALSE,
                 error |-> Some(Format("Failed to read file metadata: ", "e"))]]
  ELSE
    LET name == NameOf(file_path)
        size == env.fs.len
        created_at == Millis(env.fs.created)
        modified_at == Millis(env.fs.modified)
        exif == env.exif
        orientation == OrientationOf(exif)
        mime_type == IF is_heif_file(file_path) THEN Some(<<"image/", "heic">>)
                     ELSE IF IsSome(env.decode.format)
                          THEN Some(<<"image/", Unwrap(env.decode.format)>>)
                          ELSE None
    IN IF env.decode.kind = "panic" THEN Panicked
       ELSE IF env.decode.kind = "ok"
       THEN LET oriented == apply_orientation(Decoded(env.decode.w, env.decode.h),
                                              orientation)
                thumbs == generate_all_thumbnails_internal(relative_path, env.thumb)
            IN [kind |-> "ok", files |-> thumbs.files,
                rec |-> WarnOnly(thumbs,
                        [path |-> relative_path, name |-> name, size |-> size,
                         created_at |-> created_at, modified_at |-> modified_at,
                         width |-> Some(Width(oriented)),
                         height |-> Some(Height(oriented)),
                         mime_type |-> mime_type,
                         phash |-> Some(generate_phash_from_image(oriented)),
                         clip_embedding |->
                           generate_clip_embedding_from_image("raster", env.clip),
                         exif |-> exif, is_raw |-> FALSE, raw_format |-> None,
                         raw_status |-> None, raw_error |-> None, success |-> TRUE,
                         error |-> None])]
       ELSE [kind |-> "ok", files |-> {},
             rec |-> [path |-> relative_path, name |-> name, size |-> size,
                      created_at |-> created_at, modified_at |-> modified_at,
                      width |-> None, height |-> None, mime_type |-> None,
                      phash |-> None, clip_embedding |-> None, exif |-> exif,
                      is_raw |-> FALSE, raw_format |-> None, raw_status |-> None,
                      raw_error |-> None, success |-> FALSE,
                      error |-> Some(Format("Failed to decode image: ", "e"))]]

\* variant: every failing stage reports the same message
RawErrorGeneric(stage) == Format("Failed to process RAW: ", "e")

\* raw.rs: the message of each failing stage of process_raw_complete_internal
RawErrorOf(stage) ==
  CASE stage = "read1" -> Format("Failed to read file: ", "e")
    [] stage = "open1" -> Format("Failed to open RAW: ", "e")
    [] stage = "read2" -> Format("Failed to read file for processing: ", "e")
    [] stage = "open2" -> Format("Failed to open RAW for processing: ", "e")
    [] stage = "unpack" -> Format("Failed to unpack RAW: ", "e")
    [] stage = "process" -> Format("Failed to process RAW: ", "e")
    [] stage = "buffer" -> <<"Failed to create image buffer">>

\* variant: any extracted preview qualifies
histogram_matched_any_preview(preview) == IsSome(preview)

\* raw.rs: histogram matching is applied when a preview was extracted and its
\* shorter side is at least 800
histogram_matched(preview) ==
  IF IsSome(preview)
  THEN LET min_dim == Min(Unwrap(preview).w, Unwrap(preview).h) IN min_dim >= 800
  ELSE FALSE

\* raw.rs: the curve of the channel is built from the histograms of the
\* processed raster and of the preview, and applied to the raster, when the
\* preview qualifies; the three channels run the same code
HistogramMatch(rgb_img, preview) ==
  IF histogram_matched(preview)
  THEN apply_rgb_curves_inplace(
         rgb_img,
         build_tone_curve(histogram_to_cdf(compute_rgb_histograms_sampled(rgb_img)),
                          histogram_to_cdf(PreviewHistogram(Unwrap(preview)))))
  ELSE rgb_img

\* variant: the failing stage returns without the metadata extracted before it
RawFailureNoExif(exif, message) ==
  [width |-> 0, height |-> 0, phash |-> None, clip_embedding |-> None, exif |-> None,
   histogram_matched |-> FALSE, success |-> FALSE, error |-> Some(message)]

\* variant: the failing stage's message is lost
RawFailureNoError(exif, message) ==
  [width |-> 0, height |-> 0, phash |-> None, clip_embedding |-> None, exif |-> exif,
   histogram_matched |-> FALSE, success |-> FALSE, error |-> None]

\* raw.rs: the result that every failing stage returns early with
RawFailure(exif, message) ==
  [width |-> 0, height |-> 0, phash |-> None, clip_embedding |-> None, exif |-> exif,
   histogram_matched |-> FALSE, success |-> FALSE, error |-> Some(message)]

\* raw.rs: process_raw_complete_internal, yielding [res, files]
process_raw_complete_internal(file_path, relative_path, env) ==
  LET exif == env.exif
      orientation == OrientationOf(exif)
  IN IF env.raw.fail # "none"
     THEN [files |-> {}, res |-> RawFailure(exif, RawErrorOf(env.raw.fail))]
     ELSE LET width == env.raw.w
              height == env.raw.h
              matched == histogram_matched(env.preview)
              dynamic_img ==
                raw_apply_orientation(HistogramMatch(Decoded(width, height), env.preview),
                                      orientation)
              thumbs == generate_all_thumbnails_internal(relative_path, env.thumb)
              clip_embedding ==
                IF IsSome(env.preview)
                THEN generate_clip_embedding_from_image("preview", env.clip)
                ELSE generate_clip_embedding_from_image("raster", env.clip)
          IN [files |-> thumbs.files,
              res |-> WarnOnly(thumbs,
                      [width |-> width, height |-> height,
                       phash |-> Some(generate_phash_from_image(dynamic_img)),
                       clip_embedding |-> clip_embedding, exif |-> exif,
                       histogram_matched |-> matched, success |-> TRUE,
                       error |-> None])]

\* variant: the dimensions of the RAW result are passed on unconditionally
RawDimensionAlways(raw_result, value) == Some(value)

\* variant: the status does not look at the outcome
RawStatusConverted(raw_result) == Some("converted")

\* batch.rs: width and height of a RAW record are present when the RAW result
\* succeeded
RawDimension(raw_result, value) == IF raw_result.success THEN Some(value) ELSE None

\* batch.rs: raw_status of a RAW record whose file metadata was read
RawStatus(raw_result) ==
  Some(IF raw_result.success THEN "converted" ELSE "failed")

\* batch.rs: the record process_raw_file builds from the result of the RAW
\* pipeline
RawRecord(file_path, relative_path, env, raw_format, mime_type, raw_result) ==
  [path |-> relative_path, name |-> NameOf(file_path),
   size |-> env.fs.len, created_at |-> Millis(env.fs.created),
   modified_at |-> Millis(env.fs.modified),
   width |-> RawDimension(raw_result, raw_result.width),
   height |-> RawDimension(raw_result, raw_result.height),
   mime_type |-> mime_type, phash |-> raw_result.phash,
   clip_embedding |-> raw_result.clip_embedding,
   exif |-> raw_result.exif, is_raw |-> TRUE,
   raw_format |-> raw_format,
   raw_status |-> RawStatus(raw_result),
   raw_error |-> raw_result.error,
   success |-> raw_result.success, error |-> raw_result.error]

\* batch.rs: the record process_raw_file returns when fs::metadata fails
RawMetadataFailure(file_path, relative_path, raw_format, mime_type) ==
  [path |-> relative_path, name |-> NameOf(file_path), size |-> 0,
   created_at |-> 0, modified_at |-> 0, width |-> None,
   height |-> None, mime_type |-> mime_type, phash |-> None,
   clip_embedding |-> None, exif |-> None, is_raw |-> TRUE,
   raw_format |-> raw_format, raw_status |-> Some("failed"),
   raw_error |-> Some(Format("Failed to read file metadata: ", "e")),
   success |-> FALSE,
   error |-> Some(Format("Failed to read file metadata: ", "e"))]

\* batch.rs: "image/x-<format lower-cased>" of a RAW file
RawMimeType(raw_format) ==
  IF IsSome(raw_format)
  THEN Some(<<"image/x-", to_lowercase(Unwrap(raw_format))>>)
  ELSE None

\* batch.rs: process_raw_file with the format and the RAW result computed
RawFileResult(file_path, relative_path, env, raw_format, raw) ==
  IF ~env.fs.ok
  THEN [kind |-> "ok", files |-> {},
        rec |-> RawMetadataFailure(file_path, relative_path, raw_format,
                                   RawMimeType(raw_format))]
  ELSE [kind |-> "ok", files |-> raw.files,
        rec |-> RawRecord(file_path, relative_path, env, raw_format,
                          RawMimeType(raw_format), raw.res)]

\* batch.rs: process_raw_file, the wrapper that builds the record
process_raw_file(file_path, relative_path, env) ==
  RawFileResult(file_path, relative_path, env, get_raw_format(file_path),
                process_raw_complete_internal(file_path, relative_path, env))

\* variant: an unsupported file is reported with another message
UnsupportedRecordOtherError(file_path, relative_path) ==
  [path |-> relative_path, name |-> NameOf(file_path), size |-> 0, created_at |-> 0,
   modified_at |-> 0, width |-> None, height |-> None, mime_type |-> None,
   phash |-> None, clip_embedding |-> None, exif |-> None, is_raw |-> FALSE,
   raw_format |-> None, raw_status |-> None, raw_error |-> None, success |-> FALSE,
   error |-> Some(<<"Failed to decode image: ", "e">>)]

\* batch.rs: the record of a file whose type is not supported
UnsupportedRecord(file_path, relative_path) ==
  [path |-> relative_path, name |-> NameOf(file_path), size |-> 0, created_at |-> 0,
   modified_at |-> 0, width |-> None, height |-> None, mime_type |-> None,
   phash |-> None, clip_embedding |-> None, exif |-> None, is_raw |-> FALSE,
   raw_format |-> None, raw_status |-> None, raw_error |-> None, success |-> FALSE,
   error |-> Some(<<"Unsupported file type">>)]

\* batch.rs: process_photo_internal, the dispatch on the file type
process_photo_internal(file_path, relative_path, env) ==
  LET type == detect_file_type(file_path)
  IN IF type = "Raw" THEN process_raw_file(file_path, relative_path, env)
     ELSE IF type \in {"Heif", "Standard"}
     THEN process_standard_image(file_path, relative_path, env)
     ELSE [kind |-> "ok", files |-> {},
           rec |-> UnsupportedRecord(file_path, relative_path)]

----------------------------------------------------------------------------
(* The entrypoints and the batch scheduler *)

MaxBatch == 5   \* the longest batch
MaxCpus == 5    \* the largest hardware parallelism
MaxFaultyBatch == 3   \* the longest batch in which a stage of an item fails

\* the absolute paths and the relative paths that the calls are made with
PathCatalogue ==
  << <<"/","a",".","j","p","g">>, <<"/","n",".","t","x","t">>,
     <<"/","b",".","C","R","2">>, <<"/","q">>, <<"/","c",".","H","E","I","C">> >>
RelCatalogue ==
  << <<"d","/","a",".","j","p","g">>, <<"n",".","t","x","t">>,
     <<"d","/","a",".","c","r","2">>, <<"q">>, <<"c",".","h","e","i","c">> >>

\* the n consecutive entries of a catalogue from position start on, cyclically
Window(cat, start, n) == [i \in 1..n |-> cat[((start + i - 2) % Len(cat)) + 1]]

\* the collaborators' answers drawn for the items of a batch: every stage
\* succeeds, the decode stage fails, the decode stage panics
EnvOk ==
  [fs |-> [ok |-> TRUE, len |-> 2048, created |-> Some(1000), modified |-> Some(2000)],
   exif |-> Some([orientation |-> Some(6)]),
   decode |-> [kind |-> "ok", w |-> 2, h |-> 1, format |-> Some("jpeg")],
   raw |-> [fail |-> "none", w |-> 2, h |-> 1],
   preview |-> Some([w |-> 1200, h |-> 800, level |-> 2]), thumb |-> 0, clip |-> TRUE]
EnvFail ==
  [EnvOk EXCEPT !.decode = [kind |-> "err", w |-> 0, h |-> 0, format |-> None],
                !.raw = [fail |-> "unpack", w |-> 0, h |-> 0]]
EnvPanic ==
  [EnvOk EXCEPT !.decode = [kind |-> "panic", w |-> 0, h |-> 0, format |-> None]]
BatchEnvs == {EnvOk, EnvFail, EnvPanic}

\* the answers drawn for the items of process_raw_batch_complete: every stage
\* succeeds, unpacking fails, no preview is extracted, the preview is too small
EnvNoPreview == [EnvOk EXCEPT !.preview = None]
EnvSmallPreview ==
  [EnvOk EXCEPT !.preview = Some([w |-> 1200, h |-> 799, level |-> 2])]
RawBatchEnvs == {EnvOk, EnvFail, EnvNoPreview, EnvSmallPreview}

\* the answers an item of the batch can get: failures are drawn in the batches
\* of at most MaxFaultyBatch items, in a longer batch every stage succeeds
ItemEnvs ==
  IF Len(file_paths) > MaxFaultyBatch THEN {EnvOk}
  ELSE IF entry = "process_photos_batch" THEN BatchEnvs ELSE RawBatchEnvs

N == Len(file_paths)
Items == 1..N

\* variant: the relative path is taken one position further on
RelPathAtNext(i) ==
  IF i + 1 <= Len(relative_paths) THEN relative_paths[i + 1] ELSE <<>>

\* relative_paths.get(i).unwrap_or("")
RelPathAt(i) == IF i <= Len(relative_paths) THEN relative_paths[i] ELSE <<>>

InFlight == {i \in Items : status[i] = "running"}

\* variant: results are pushed in the order in which the items complete
CollectInCompletionOrder(s, i, rec) ==
  LET free == CHOOSE k \in DOMAIN s : s[k] = None /\ \A j \in DOMAIN s : s[j] = None => k <= j
  IN [s EXCEPT ![free] = Some(rec)]

\* the indexed collect: the result of item i goes to slot i
Collect(s, i, rec) == [s EXCEPT ![i] = Some(rec)]

PipeIdle ==
  /\ entry = "none" /\ file_paths = <<>> /\ relative_paths = <<>> /\ num_cpus = 0
  /\ phase = "idle" /\ pool = 0 /\ status = <<>> /\ slots = <<>> /\ output = <<>>
  /\ disk = {} /\ answers = <<>>
ToneIdle == srcHist = <<>> /\ tgtHist = <<>> /\ curve = <<>>
OrientIdle == orig = <<>> /\ img = <<>> /\ codes = <<>>
ClassifyIdle ==
  /\ query_path = <<>> /\ file_type = "" /\ supported = <<>> /\ extensions = <<>>
  /\ decoder = <<>>
ClipIdle ==
  clip_pc = <<>> /\ cell = "empty" /\ instances = 0 /\ holder = 0 /\ poisoned = FALSE
StageIdle == item_path = <<>> /\ item_env = <<>> /\ stages = <<>>
RunIdle ==
  /\ run_path = <<>> /\ run_env = <<>> /\ pc = "" /\ memory = {}
  /\ written = <<>> /\ requests = <<>> /\ run_result = <<>>
SampleIdle == raster_pixels = 0 /\ sample_count = <<>>

\* every part of the model but the named one is idle
IdleExcept(part) ==
  /\ part = "pipe" \/ PipeIdle
  /\ part = "tone" \/ ToneIdle
  /\ part = "orient" \/ OrientIdle
  /\ part = "classify" \/ ClassifyIdle
  /\ part = "clip" \/ ClipIdle
  /\ part = "stage" \/ StageIdle
  /\ part = "run" \/ RunIdle
  /\ part = "sample" \/ SampleIdle

Init ==
  /\ entry \in {"process_photo", "process_photos_batch", "process_raw_batch_complete"}
  /\ num_cpus = 0
  /\ IF entry = "process_photo"
     THEN \E p \in 1..Len(PathCatalogue), r \in {1, 3} :
            /\ file_paths = <<PathCatalogue[p]>>
            /\ relative_paths = <<RelCatalogue[r]>>
     ELSE \E n \in 0..MaxBatch, start \in 1..3, short \in {0, 1} :
          LET m == n - short IN
            /\ m >= 0
            /\ file_paths = Window(PathCatalogue, start, n)
            /\ relative_paths = Window(RelCatalogue, 1, m)
  /\ phase = "called"
  /\ pool = 0
  /\ status = [i \in 1..Len(file_paths) |-> "queued"]
  /\ slots = [i \in 1..Len(file_paths) |-> None]
  /\ output = <<>>
  /\ disk = {}
  /\ answers = [i \in 1..Len(file_paths) |-> None]
  /\ IdleExcept("pipe")

\* the single item has been processed: its record is returned, or its panic
\* unwinds into the caller
ReturnOne(r, env) ==
  IF r.kind = "panic"
  THEN /\ phase' = "panicked"
       /\ UNCHANGED <<status, slots, output, disk, answers>>
  ELSE /\ phase' = "returned"
       /\ answers' = [answers EXCEPT ![1] = Some(env)]
       /\ status' = [status EXCEPT ![1] = "done"]
       /\ slots' = Collect(slots, 1, r.rec)
       /\ output' = <<r.rec>>
       /\ disk' = disk \cup r.files

\* batch.rs: process_photo runs the item on the calling thread
ProcessPhoto ==
  /\ entry = "process_photo"
  /\ phase = "called"
  /\ \E env \in Envs :
       ReturnOne(process_photo_internal(file_paths[1], relative_paths[1], env), env)
  /\ UNCHANGED <<entry, file_paths, relative_paths, num_cpus, pool, notPipe>>

\* batch.rs: the pool of min(num_cpus, 4) threads; when it cannot be built the
\* default builder is used, whose pool has one thread per CPU, and unwrapped
BuildPool ==
  /\ entry = "process_photos_batch"
  /\ phase = "called"
  /\ \E cpus \in 1..MaxCpus :
       LET max_concurrent == Min(cpus, 4)
       IN /\ num_cpus' = cpus
          /\ \/ pool' = max_concurrent /\ phase' = "running"
             \/ pool' = cpus /\ phase' = "running"
             \/ pool' = pool /\ phase' = "panicked"
  /\ UNCHANGED <<entry, file_paths, relative_paths, status, slots, output, disk,
                 answers, notPipe>>

\* raw.rs: process_raw_batch_complete iterates on the global pool, which has
\* one thread per CPU
UseGlobalPool ==
  /\ entry = "process_raw_batch_complete"
  /\ phase = "called"
  /\ \E cpus \in 1..MaxCpus :
       /\ num_cpus' = cpus
       /\ pool' = cpus
  /\ phase' = "running"
  /\ UNCHANGED <<entry, file_paths, relative_paths, status, slots, output, disk,
                 answers, notPipe>>

\* an idle worker of the pool takes an item
StartItem(i) ==
  /\ phase = "running"
  /\ status[i] = "queued"
  /\ Cardinality(InFlight) < pool
  /\ status' = [status EXCEPT ![i] = "running"]
  /\ UNCHANGED <<entry, file_paths, relative_paths, num_cpus, phase, pool, slots,
                 output, disk, answers, notPipe>>

\* raw.rs: process_raw_batch_complete returns the RAW results themselves
RawBatchResult(raw) == [kind |-> "ok", rec |-> raw.res, files |-> raw.files]

\* the closure of the parallel map, run for item i
ProcessItem(i, env) ==
  IF entry = "process_photos_batch"
  THEN process_photo_internal(file_paths[i], RelPathAt(i), env)
  ELSE RawBatchResult(process_raw_complete_internal(file_paths[i], RelPathAt(i), env))

\* the result r of item i is collected, or the panic of the item is propagated
\* to the caller of the batch
CollectOrUnwind(i, r, env) ==
  IF r.kind = "panic"
  THEN /\ phase' = "panicked"
       /\ UNCHANGED <<status, slots, disk, answers>>
  ELSE /\ phase' = phase
       /\ answers' = [answers EXCEPT ![i] = Some(env)]
       /\ status' = [status EXCEPT ![i] = "done"]
       /\ slots' = Collect(slots, i, r.rec)
       /\ disk' = disk \cup r.files

\* the worker finishes its item
FinishItem(i) ==
  /\ phase = "running"
  /\ status[i] = "running"
  /\ \E env \in ItemEnvs : CollectOrUnwind(i, ProcessItem(i, env), env)
  /\ UNCHANGED <<entry, file_paths, relative_paths, num_cpus, pool, output, notPipe>>

\* every item is done: the collected Vec is returned
Return ==
  /\ phase = "running"
  /\ \A i \in Items : status[i] = "done"
  /\ output' = [i \in Items |-> Unwrap(slots[i])]
  /\ phase' = "returned"
  /\ UNCHANGED <<entry, file_paths, relative_paths, num_cpus, pool, status, slots,
                 disk, answers, notPipe>>

Next ==
  \/ ProcessPhoto
  \/ BuildPool
  \/ UseGlobalPool
  \/ \E i \in Items : StartItem(i)
  \/ \E i \in Items : FinishItem(i)
  \/ Return

Spec == Init /\ [][Next]_vars

----------------------------------------------------------------------------
(* The tone-curve construction on its own: two histograms are drawn and    *)
(* the curve of one channel is built from them                              *)

InitTone ==
  /\ srcHist \in Histograms
  /\ tgtHist \in Histograms
  /\ curve = <<>>
  /\ IdleExcept("tone")

\* the curve of one channel, as process_raw_complete_internal builds it
BuildToneCurve ==
  /\ curve = <<>>
  /\ curve' = build_tone_curve(histogram_to_cdf(srcHist), histogram_to_cdf(tgtHist))
  /\ UNCHANGED <<srcHist, tgtHist, notTone>>

NextTone == BuildToneCurve

SpecTone == InitTone /\ [][NextTone]_vars

----------------------------------------------------------------------------
(* Orientation applied to rasters: a first code is applied to a raster and  *)
(* a second one may be applied to the result                                *)

MaxDim == 2     \* the largest width and height of a raster

Pixels == {0, 1}
Rasters ==
  UNION { [1..h -> [1..w -> Pixels]] : w \in 1..MaxDim, h \in 1..MaxDim }

\* Option<u32> orientation values: absent, the EXIF codes and two outside them
OrientationCodes == {None} \cup {Some(c) : c \in 0..9}

InitOrient ==
  /\ orig \in Rasters
  /\ img = orig
  /\ codes = <<>>
  /\ IdleExcept("orient")

ApplyFirst ==
  /\ codes = <<>>
  /\ \E c \in OrientationCodes :
       /\ img' = apply_orientation(img, c)
       /\ codes' = <<[fn |-> "apply_orientation", code |-> c]>>
  /\ UNCHANGED <<orig, notOrient>>

ApplyFirstRaw ==
  /\ codes = <<>>
  /\ \E c \in OrientationCodes :
       /\ img' = raw_apply_orientation(img, c)
       /\ codes' = <<[fn |-> "raw", code |-> c]>>
  /\ UNCHANGED <<orig, notOrient>>

ApplySecond ==
  /\ Len(codes) = 1
  /\ \E c \in OrientationCodes :
       /\ img' = apply_orientation(img, c)
       /\ codes' = Append(codes, [fn |-> "apply_orientation", code |-> c])
  /\ UNCHANGED <<orig, notOrient>>

NextOrient == ApplyFirst \/ ApplyFirstRaw \/ ApplySecond

SpecOrient == InitOrient /\ [][NextOrient]_vars

----------------------------------------------------------------------------
(* Properties of the batch scheduler and of the records (Spec) *)

PhotoEntry == entry \in {"process_photo", "process_photos_batch"}

\* the items whose record process_photo or process_photos_batch has produced
Produced == {i \in Items : PhotoEntry /\ IsSome(slots[i])}
Rec(i) == Unwrap(slots[i])

AnyExtension == RAW_EXTENSIONS \cup HEIF_EXTENSIONS \cup STANDARD_EXTENSIONS

\* C1: a returned batch whose two lists have the same length N has exactly N
\* records, and record i is the result of processing file_paths[i] with
\* relative_paths[i] (it carries path = relative_paths[i]), whatever the order
\* in which the workers completed.
C1_OrderPreserved ==
  (entry = "process_photos_batch" /\ phase = "returned"
     /\ Len(relative_paths) = Len(file_paths))
  => /\ Len(output) = Len(file_paths)
     /\ \A i \in Items :
          /\ output[i].path = relative_paths[i]
          /\ output[i].name = NameOf(file_paths[i])
          /\ \E env \in BatchEnvs :
               LET r == process_photo_internal(file_paths[i], relative_paths[i], env)
               IN r.kind = "ok" /\ r.rec = output[i]

C1_Witness ==
  /\ entry = "process_photos_batch" /\ phase = "returned"
  /\ Len(file_paths) >= 3 /\ Len(relative_paths) = Len(file_paths)
  /\ pool >= 2
  /\ output[1].success /\ ~output[2].success /\ ~output[3].success

\* C2: no error, panic or failure to build the worker pool aborts a batch:
\* process_photos_batch always returns, and what it returns is a full-length
\* list.
C2_BatchNeverAborts ==
  entry = "process_photos_batch"
  => /\ phase # "panicked"
     /\ phase = "returned" => Len(output) = Len(file_paths)

\* C3: at no point of a batch run are more than min(hardware parallelism, 4)
\* items between the start of their decode and their terminal state, for every
\* batch entrypoint and also when the size-limited pool cannot be built.
C3_ConcurrencyBound ==
  phase = "running" => Cardinality(InFlight) <= Min(num_cpus, 4)

\* C4: in every record of process_photo and process_photos_batch, success is
\* false exactly when width and height are both absent, and width and height
\* are never one present and one absent.
C4_DimensionsIffSuccess ==
  \A i \in Produced :
    /\ ~Rec(i).success <=> (Rec(i).width = None /\ Rec(i).height = None)
    /\ IsSome(Rec(i).width) <=> IsSome(Rec(i).height)

C4_Witness ==
  \E i \in Produced :
    /\ Rec(i).is_raw /\ ~Rec(i).success
    /\ Rec(i).error = Some(RawErrorOf("unpack"))
    /\ Rec(i).width = None /\ Rec(i).height = None

\* C5: raw_status is present exactly for the paths whose extension is a RAW
\* extension; when present it is "converted" exactly when success holds and
\* "failed" exactly when it does not, also when the file metadata of a RAW
\* file cannot be read.
C5_RawStatus ==
  \A i \in Produced :
    /\ IsSome(Rec(i).raw_status) <=> DotLowerExt(file_paths[i]) \in RAW_EXTENSIONS
    /\ IsSome(Rec(i).raw_status)
       => /\ Rec(i).raw_status \in {Some("converted"), Some("failed")}
          /\ Rec(i).raw_status = Some("converted") <=> Rec(i).success
          /\ Rec(i).raw_status = Some("failed") <=> ~Rec(i).success

C5_Witness ==
  \E i \in Produced :
    /\ DotLowerExt(file_paths[i]) \in RAW_EXTENSIONS
    /\ Rec(i).error = Some(Format("Failed to read file metadata: ", "e"))
    /\ Rec(i).raw_status = Some("failed")

\* C6: every record has exactly one of two shapes: success with no error and
\* with width, height and perceptual hash, or failure with an error and with
\* neither perceptual hash nor embedding.
SuccessShape(r) ==
  r.success /\ r.error = None /\ IsSome(r.width) /\ IsSome(r.height) /\ IsSome(r.phash)
FailureShape(r) ==
  ~r.success /\ IsSome(r.error) /\ r.phash = None /\ r.clip_embedding = None

C6_OneShape ==
  \A i \in Produced :
    /\ SuccessShape(Rec(i)) \/ FailureShape(Rec(i))
    /\ ~(SuccessShape(Rec(i)) /\ FailureShape(Rec(i)))

C6_Witness ==
  \E i \in Produced :
    /\ Rec(i).is_raw /\ FailureShape(Rec(i))
    /\ Rec(i).error = Some(RawErrorOf("process"))

\* C10: in a returned batch, an item whose path has no recognized extension has
\* a record with success false, the error "Unsupported file type", no width,
\* no height and no raw_status; every other item of the batch is still
\* processed, and has width and height when its decode succeeded.
C10_UnsupportedIsolated ==
  (entry = "process_photos_batch" /\ phase = "returned")
  => \A i \in Items :
       IF DotLowerExt(file_paths[i]) \notin AnyExtension
       THEN /\ ~output[i].success
            /\ output[i].error = Some(<<"Unsupported file type">>)
            /\ output[i].width = None /\ output[i].height = None
            /\ output[i].raw_status = None
       ELSE /\ \E env \in BatchEnvs :
                 LET r == process_photo_internal(file_paths[i], RelPathAt(i), env)
                 IN r.kind = "ok" /\ r.rec = output[i]
            /\ output[i].error # Some(<<"Unsupported file type">>)
            /\ output[i].success
               => IsSome(output[i].width) /\ IsSome(output[i].height)

C10_Witness ==
  /\ entry = "process_photos_batch" /\ phase = "returned"
  /\ Len(file_paths) = 3
  /\ DotLowerExt(file_paths[2]) \notin AnyExtension
  /\ output[2].error = Some(<<"Unsupported file type">>)
  /\ output[1].success /\ IsSome(output[1].width) /\ IsSome(output[1].height)
  /\ output[3].success /\ IsSome(output[3].width) /\ IsSome(output[3].height)

----------------------------------------------------------------------------
(* Properties of the tone curve (SpecTone) *)

Built == curve # <<>>

\* C7, as claimed: a tone curve built from a raster's CDF as both source and
\* target is the identity, curve[i] = i for every level i, for every
\* histogram, those with empty buckets included.
C7_IdentityCurve ==
  (Built /\ srcHist = tgtHist) => \A i \in LevelSet : curve[i] = i

\* C7, amended: a tone curve built from a raster's CDF as both source and
\* target maps every level whose bucket is not empty to itself, and every
\* level with an empty bucket to a level not above it with the same
\* cumulative value.
C7_IdentityOnPresentLevels ==
  (Built /\ srcHist = tgtHist)
  => \A i \in LevelSet :
       /\ srcHist[i] > 0 => curve[i] = i
       /\ curve[i] <= i
       /\ SumTo(srcHist, curve[i]) = SumTo(srcHist, i)

C7_Witness ==
  /\ Built /\ srcHist = tgtHist
  /\ \E i, j \in LevelSet : i < j /\ srcHist[i] > 0 /\ srcHist[j] = 0 /\ curve[j] = i
  /\ \E i \in LevelSet : i > 0 /\ srcHist[i] > 0 /\ srcHist[i - 1] > 0 /\ curve[i] = i

----------------------------------------------------------------------------
(* Properties of the orientation transforms (SpecOrient) *)

Applied(k, c) == codes[k].fn = "apply_orientation" /\ codes[k].code = c

\* C8: apply_orientation with code 6 turns a W x H raster into an H x W raster,
\* and code 8 applied to that result gives back the original raster, pixel
\* for pixel.
C8_SixThenEight ==
  /\ (Len(codes) = 1 /\ Applied(1, Some(6)))
     => Width(img) = Height(orig) /\ Height(img) = Width(orig)
  /\ (Len(codes) = 2 /\ Applied(1, Some(6)) /\ Applied(2, Some(8))) => img = orig

C8_Witness ==
  /\ Len(codes) = 2 /\ Applied(1, Some(6)) /\ Applied(2, Some(8))
  /\ Width(orig) # Height(orig)
  /\ \E y1, y2 \in 1..Height(orig), x1, x2 \in 1..Width(orig) :
       orig[y1][x1] # orig[y2][x2]
  /\ img = orig

\* the codes for which no transform is defined: absent, 1, and outside 2..8
IdentityCodes == {None, Some(0), Some(1), Some(9)}

\* C9: apply_orientation, and the table inlined in the RAW path, return a
\* raster for every code, and return the raster they were given for code 1,
\* for an absent code and for every code outside 2..8.
C9_TotalAndIdentity ==
  Len(codes) = 1
  => /\ codes[1].code \in IdentityCodes => img = orig
     /\ \/ Width(img) = Width(orig) /\ Height(img) = Height(orig)
        \/ Width(img) = Height(orig) /\ Height(img) = Width(orig)

C9_Witness ==
  /\ Len(codes) = 1 /\ codes[1].code = Some(9) /\ codes[1].fn = "raw"
  /\ Width(orig) # Height(orig)
  /\ \E y1, y2 \in 1..Height(orig), x1, x2 \in 1..Width(orig) :
       orig[y1][x1] # orig[y2][x2]
  /\ img = orig

----------------------------------------------------------------------------
(* Further properties of the records (Spec) *)

Unsupported(i) == detect_file_type(file_paths[i]) = "Unsupported"

\* C11: the record of an unsupported file whose filesystem metadata is readable
\* carries the size and the creation and modification times that the
\* filesystem reports.  Every item of a batch has readable metadata (the
\* answers of BatchEnvs), so the statement is made on the batch entrypoint.
C11_UnsupportedKeepsFileFacts ==
  \A i \in Produced :
    (entry = "process_photos_batch" /\ Unsupported(i))
    => /\ Rec(i).size = EnvOk.fs.len
       /\ Rec(i).created_at = Millis(EnvOk.fs.created)
       /\ Rec(i).modified_at = Millis(EnvOk.fs.modified)

Answer(i) == Unwrap(answers[i])

\* the items whose result is collected and that went through the whole RAW
\* pipeline with every decode stage succeeding
RawDecoded(i) ==
  /\ IsSome(slots[i])
  /\ \/ entry = "process_raw_batch_complete"
     \/ PhotoEntry /\ detect_file_type(file_paths[i]) = "Raw" /\ Answer(i).fs.ok
  /\ Answer(i).raw.fail = "none"

\* the oriented raster of a RAW item that tone correction has not touched
UntonedRaster(i) ==
  raw_apply_orientation(Decoded(Answer(i).raw.w, Answer(i).raw.h),
                        OrientationOf(Answer(i).exif))

\* C12: a RAW item whose decode succeeds succeeds; its histogram_matched is
\* true exactly when a preview was extracted and decoded and the shorter side
\* of the preview is at least 800; when it is false the raster that is hashed
\* is the decoded, oriented raster with its pixels as decoded.
C12_HistogramMatched ==
  \A i \in Items :
    RawDecoded(i)
    => /\ Rec(i).success
       /\ entry = "process_raw_batch_complete"
          => (Rec(i).histogram_matched
                <=> /\ IsSome(Answer(i).preview)
                    /\ Min(Unwrap(Answer(i).preview).w, Unwrap(Answer(i).preview).h) >= 800)
       /\ (~IsSome(Answer(i).preview)
             \/ Min(Unwrap(Answer(i).preview).w, Unwrap(Answer(i).preview).h) < 800)
          => Rec(i).phash = Some(generate_phash_from_image(UntonedRaster(i)))

C12_Witness ==
  /\ entry = "process_raw_batch_complete" /\ phase = "returned"
  /\ \E i, j, k \in Items :
       /\ RawDecoded(i) /\ RawDecoded(j) /\ RawDecoded(k)
       /\ Answer(i).preview = Some([w |-> 1200, h |-> 799, level |-> 2])
       /\ ~output[i].histogram_matched
       /\ Answer(j).preview = Some([w |-> 1200, h |-> 800, level |-> 2])
       /\ output[j].histogram_matched
       /\ output[j].phash # Some(generate_phash_from_image(UntonedRaster(j)))
       /\ Answer(k).preview = None
       /\ ~output[k].histogram_matched /\ output[k].success

----------------------------------------------------------------------------
(* The classifier on its own: is_supported_image and                        *)
(* get_supported_extensions are asked about one path                        *)

\* the paths asked about: a directory part, a stem, an extension written in
\* lower case, in upper case or capitalised, and possibly a trailing slash
QueryDirs == { <<>>, <<"/">>, <<"d", "/">>, <<"d", ".", "j", "p", "g", "/">> }
QueryStems == { <<>>, <<"a">>, <<"a", ".", "b">>, <<".">> }
QueryExtensions ==
  { Tail(e) : e \in get_supported_extensions }
    \cup { <<"t", "x", "t">>, <<"j", "p">>, <<"h", "e", "i", "c", "s">>, <<>> }
Capitalised(e) ==
  IF e = <<>> THEN e ELSE <<to_uppercase_char(Head(e))>> \o Tail(e)
Cased(e) == { e, to_uppercase(e), Capitalised(e) }
QueryPaths ==
  { dir \o stem \o (IF e = <<>> THEN <<>> ELSE <<".">> \o e) \o trail :
      dir \in QueryDirs, stem \in QueryStems,
      e \in UNION { Cased(x) : x \in QueryExtensions },
      trail \in { <<>>, <<"/">> } }

InitClassify ==
  /\ query_path \in QueryPaths
  /\ file_type = ""
  /\ supported = None
  /\ extensions = None
  /\ decoder = None
  /\ IdleExcept("classify")

IsSupportedImage ==
  /\ supported = None
  /\ file_type' = detect_file_type(query_path)
  /\ supported' = Some(is_supported_image(query_path))
  /\ UNCHANGED <<query_path, extensions, decoder, notClass>>

GetSupportedExtensions ==
  /\ extensions = None
  /\ extensions' = Some(get_supported_extensions)
  /\ UNCHANGED <<query_path, file_type, supported, decoder, notClass>>

\* process_standard_image, reached by the paths that process_photo_internal
\* finds to be Heif or Standard: decode_heif for a path that is_heif_file
\* accepts, ImageReader otherwise
SelectDecoder ==
  /\ decoder = None
  /\ detect_file_type(query_path) \in {"Heif", "Standard"}
  /\ decoder' = Some(IF is_heif_file(query_path) THEN "decode_heif" ELSE "ImageReader")
  /\ UNCHANGED <<query_path, file_type, supported, extensions, notClass>>

NextClassify == IsSupportedImage \/ GetSupportedExtensions \/ SelectDecoder

SpecClassify == InitClassify /\ [][NextClassify]_vars

\* C13: the three extension sets are pairwise disjoint; the type of a path is
\* the one of Raw, Heif, Standard whose set holds the dot-prefixed lower-cased
\* extension of the path, and Unsupported when none does; the answer is the
\* same for the path written in lower and in upper case; is_supported_image is
\* true exactly when that extension is in get_supported_extensions(), which
\* holds ".heic" and not ".txt".
C13_Classifier ==
  /\ RAW_EXTENSIONS \cap HEIF_EXTENSIONS = {}
  /\ RAW_EXTENSIONS \cap STANDARD_EXTENSIONS = {}
  /\ HEIF_EXTENSIONS \cap STANDARD_EXTENSIONS = {}
  /\ IsSome(supported)
     => /\ file_type \in {"Raw", "Heif", "Standard", "Unsupported"}
        /\ file_type = "Raw" <=> DotLowerExt(query_path) \in RAW_EXTENSIONS
        /\ file_type = "Heif" <=> DotLowerExt(query_path) \in HEIF_EXTENSIONS
        /\ file_type = "Standard" <=> DotLowerExt(query_path) \in STANDARD_EXTENSIONS
        /\ file_type = detect_file_type(to_lowercase(query_path))
        /\ file_type = detect_file_type(to_uppercase(query_path))
        /\ Unwrap(supported) <=> file_type # "Unsupported"
        /\ IsSome(extensions)
           => (Unwrap(supported) <=> DotLowerExt(query_path) \in Unwrap(extensions))
  /\ IsSome(extensions)
     => /\ <<".", "h", "e", "i", "c">> \in Unwrap(extensions)
        /\ <<".", "t", "x", "t">> \notin Unwrap(extensions)

C13_Witness ==
  /\ query_path = <<"d", "/", "a", ".", "b", ".", "H", "e", "i", "c">>
  /\ file_type = "Heif" /\ supported = Some(TRUE)
  /\ IsSome(extensions)

----------------------------------------------------------------------------
(* Properties of the items of a batch among themselves (Spec) *)

\* C14: two distinct items that are in flight at the same time write no
\* thumbnail file in common, whatever their collaborators answer.
C14_NoSharedArtifact ==
  \A i, j \in Items :
    (i # j /\ status[i] = "running" /\ status[j] = "running")
    => \A ei, ej \in ItemEnvs :
         ProcessItem(i, ei).files \cap ProcessItem(j, ej).files = {}

----------------------------------------------------------------------------
(* The embedding model (clip.rs): MaxCallers threads call                   *)
(* batch_generate_clip_embeddings at the same time.  CLIP_IMAGE_MODEL is a  *)
(* once_cell::sync::OnceCell: get_or_try_init runs one initializer at a     *)
(* time, keeps the cell empty when it fails and never replaces a value.     *)

MaxCallers == 3   \* the number of threads calling at the same time

Callers == 1..MaxCallers

InitClip ==
  /\ clip_pc = [w \in Callers |-> "called"]
  /\ cell = "empty"
  /\ instances = 0
  /\ holder = 0
  /\ poisoned = FALSE
  /\ IdleExcept("clip")

\* image::open of every path: some image loads, or none does and the call
\* returns a list of None
LoadImages(w) ==
  /\ clip_pc[w] = "called"
  /\ \E any \in BOOLEAN :
       clip_pc' = [clip_pc EXCEPT ![w] = IF any THEN "loaded" ELSE "returned"]
  /\ UNCHANGED <<cell, instances, holder, poisoned, notClip>>

\* variant: a caller that finds no value starts an initializer of its own
CellUnset(c) == c # "set"

\* get_or_try_init: the initializer is started by the caller that finds the
\* cell empty with no initializer running
CellVacant(c) == c = "empty"

\* get_clip_image_model: the value of the cell, or the initializer is started;
\* a caller that finds another one initializing waits
GetClipImageModel(w) ==
  /\ clip_pc[w] = "loaded"
  /\ \/ /\ cell = "set"
        /\ clip_pc' = [clip_pc EXCEPT ![w] = "locking"]
        /\ cell' = cell
     \/ /\ cell # "set" /\ CellVacant(cell)
        /\ clip_pc' = [clip_pc EXCEPT ![w] = "initializing"]
        /\ cell' = "initializing"
  /\ UNCHANGED <<instances, holder, poisoned, notClip>>

\* ImageEmbedding::try_new in the initializer: Ok fills the cell, Err leaves it
\* empty and the call returns a list of None
TryNew(w) ==
  /\ clip_pc[w] = "initializing"
  /\ \/ /\ instances' = instances + 1
        /\ cell' = "set"
        /\ clip_pc' = [clip_pc EXCEPT ![w] = "locking"]
     \/ /\ instances' = instances
        /\ cell' = "empty"
        /\ clip_pc' = [clip_pc EXCEPT ![w] = "returned"]
  /\ UNCHANGED <<holder, poisoned, notClip>>

\* model_mutex.lock(): waits while the Mutex is held; Err when it is poisoned
Lock(w) ==
  /\ clip_pc[w] = "locking"
  /\ holder = 0
  /\ IF poisoned
     THEN clip_pc' = [clip_pc EXCEPT ![w] = "returned"] /\ holder' = holder
     ELSE clip_pc' = [clip_pc EXCEPT ![w] = "embedding"] /\ holder' = w
  /\ UNCHANGED <<cell, instances, poisoned, notClip>>

\* model.embed_images under the guard: it returns (Ok or Err) and the guard is
\* dropped at the end of the call, or it panics and the Mutex is poisoned
EmbedImages(w) ==
  /\ clip_pc[w] = "embedding"
  /\ holder' = 0
  /\ \/ clip_pc' = [clip_pc EXCEPT ![w] = "returned"] /\ poisoned' = poisoned
     \/ clip_pc' = [clip_pc EXCEPT ![w] = "panicked"] /\ poisoned' = TRUE
  /\ UNCHANGED <<cell, instances, notClip>>

NextClip ==
  \/ \E w \in Callers : LoadImages(w)
  \/ \E w \in Callers : GetClipImageModel(w)
  \/ \E w \in Callers : TryNew(w)
  \/ \E w \in Callers : Lock(w)
  \/ \E w \in Callers : EmbedImages(w)

SpecClip == InitClip /\ [][NextClip]_vars

\* C15: at most one model instance is ever created successfully, at most one
\* initializer runs at a time, and at most one caller is inside embed_images
\* (the one that holds the Mutex).
C15_OneModelOneInference ==
  /\ instances <= 1
  /\ instances = 1 <=> cell = "set"
  /\ Cardinality({w \in Callers : clip_pc[w] = "initializing"}) <= 1
  /\ Cardinality({w \in Callers : clip_pc[w] = "embedding"}) <= 1
  /\ \A w \in Callers : clip_pc[w] = "embedding" <=> holder = w

\* two callers load their images at the same time, and later one of them is
\* inside embed_images while another waits for the Mutex
C15_Witness ==
  /\ instances = 1
  /\ \E w, v, u \in Callers :
       /\ clip_pc[w] = "embedding"
       /\ clip_pc[v] = "locking"
       /\ clip_pc[u] = "called"

----------------------------------------------------------------------------
(* Properties of the failures of one item (Spec) *)

\* the items of process_photo and process_photos_batch whose record is
\* collected and whose raster decode succeeded
DecodeSucceeded(i) ==
  /\ i \in Produced
  /\ Answer(i).fs.ok
  /\ \/ /\ detect_file_type(file_paths[i]) \in {"Heif", "Standard"}
        /\ Answer(i).decode.kind = "ok"
     \/ /\ detect_file_type(file_paths[i]) = "Raw"
        /\ Answer(i).raw.fail = "none"

\* the record of item i had every thumbnail been written and the embedding
\* provider been available
Untroubled(i) ==
  process_photo_internal(file_paths[i], RelPathAt(i),
                         [Answer(i) EXCEPT !.thumb = 0, !.clip = TRUE]).rec

\* C16: an item whose raster decode succeeded has success true, no error and
\* both dimensions, whatever the thumbnail writer and the embedding provider
\* answer; its record differs from the untroubled one at most in the embedding,
\* which is absent exactly when the provider is unavailable.
C16_ArtifactFailuresAbsorbed ==
  \A i \in Items :
    DecodeSucceeded(i)
    => /\ Rec(i).success /\ Rec(i).error = None
       /\ IsSome(Rec(i).width) /\ IsSome(Rec(i).height)
       /\ [Rec(i) EXCEPT !.clip_embedding = Untroubled(i).clip_embedding] = Untroubled(i)
       /\ Rec(i).clip_embedding = None <=> ~Answer(i).clip

C16_Witness ==
  /\ entry = "process_photo" /\ phase = "returned"
  /\ DecodeSucceeded(1)
  /\ detect_file_type(file_paths[1]) = "Heif"
  /\ Answer(1).thumb = 2 /\ ~Answer(1).clip
  /\ output[1].success /\ output[1].clip_embedding = None
  /\ Cardinality(disk) = 1

\* C17: process_photo(p, r, t) and process_photos_batch([p], [r], t), when
\* they return, return the record that process_photo_internal yields for p, r
\* and the answers of the collaborators: the same record for the same answers.
C17_SingleEqualsBatchOfOne ==
  (PhotoEntry /\ phase = "returned" /\ N = 1 /\ Len(relative_paths) = 1)
  => /\ Len(output) = 1
     /\ output[1] =
          process_photo_internal(file_paths[1], relative_paths[1], Answer(1)).rec

C17_Witness ==
  /\ entry = "process_photos_batch" /\ phase = "returned"
  /\ N = 1 /\ Len(relative_paths) = 1
  /\ Answer(1) = EnvOk /\ EnvOk \in Envs
  /\ detect_file_type(file_paths[1]) = "Raw"
  /\ output[1].success /\ output[1].path = relative_paths[1]

----------------------------------------------------------------------------
(* The stages of one item, statement by statement: process_photo_internal,  *)
(* process_standard_image, process_raw_file, process_raw_complete_internal. *)
(* stages is the list of the stages run so far; "Failed" is the return of a *)
(* failed record, "Done" the return of a successful one, "Unwound" a panic. *)

EnvNoFile ==
  [EnvOk EXCEPT !.fs = [ok |-> FALSE, len |-> 0, created |-> None, modified |-> None]]
EnvNoThumbs == [EnvOk EXCEPT !.thumb = 1, !.clip = FALSE]
StageEnvs ==
  {EnvOk, EnvFail, EnvPanic, EnvNoPreview, EnvSmallPreview, EnvNoFile, EnvNoThumbs}

LastStage == IF stages = <<>> THEN "Init" ELSE stages[Len(stages)]
ItemType == detect_file_type(item_path)

InitStages ==
  /\ item_path \in {PathCatalogue[k] : k \in 1..Len(PathCatalogue)}
  /\ item_env \in StageEnvs
  /\ stages = <<>>
  /\ IdleExcept("stage")

\* process_photo_internal: match detect_file_type(file_path); the Unsupported
\* arm returns its record at once
FormatDispatch ==
  /\ LastStage = "Init"
  /\ stages' = IF ItemType = "Unsupported"
               THEN stages \o <<"FormatDispatch", "Failed">>
               ELSE Append(stages, "FormatDispatch")
  /\ UNCHANGED <<item_path, item_env, notStage>>

\* process_standard_image, process_raw_file: fs::metadata, Err returns
MetadataRead ==
  /\ LastStage = "FormatDispatch"
  /\ stages' = IF item_env.fs.ok
               THEN Append(stages, "MetadataRead")
               ELSE stages \o <<"MetadataRead", "Failed">>
  /\ UNCHANGED <<item_path, item_env, notStage>>

\* process_standard_image: decode_heif for a path is_heif_file accepts,
\* ImageReader otherwise; Err returns the failed record, a panic unwinds
StandardOrHeifDecode ==
  /\ LastStage = "MetadataRead"
  /\ ItemType \in {"Heif", "Standard"}
  /\ LET decode == IF is_heif_file(item_path) THEN "HighEfficiencyDecode"
                   ELSE "StandardDecode"
     IN stages' = CASE item_env.decode.kind = "ok" -> Append(stages, decode)
                    [] item_env.decode.kind = "err" -> stages \o <<decode, "Failed">>
                    [] OTHER -> stages \o <<decode, "Unwound">>
  /\ UNCHANGED <<item_path, item_env, notStage>>

\* process_raw_complete_internal: read, open, preview, re-open, unpack, process
RawDecode ==
  /\ LastStage = "MetadataRead"
  /\ ItemType = "Raw"
  /\ stages' = IF item_env.raw.fail = "none"
               THEN Append(stages, "RawDecode")
               ELSE stages \o <<"RawDecode", "Failed">>
  /\ UNCHANGED <<item_path, item_env, notStage>>

\* process_raw_complete_internal: the curves are built and applied
ToneMatch ==
  /\ LastStage = "RawDecode"
  /\ histogram_matched(item_env.preview)
  /\ stages' = Append(stages, "ToneMatch")
  /\ UNCHANGED <<item_path, item_env, notStage>>

Orient ==
  /\ \/ LastStage \in {"StandardDecode", "HighEfficiencyDecode", "ToneMatch"}
     \/ LastStage = "RawDecode" /\ ~histogram_matched(item_env.preview)
  /\ stages' = Append(stages, "Orient")
  /\ UNCHANGED <<item_path, item_env, notStage>>

Hash ==
  /\ LastStage = "Orient"
  /\ stages' = Append(stages, "Hash")
  /\ UNCHANGED <<item_path, item_env, notStage>>

\* an Err of the thumbnail writer is a warning
Thumbnails ==
  /\ LastStage = "Hash"
  /\ stages' = Append(stages, "Thumbnails")
  /\ UNCHANGED <<item_path, item_env, notStage>>

\* the embedding is requested and the successful record is returned
Embedding ==
  /\ LastStage = "Thumbnails"
  /\ stages' = stages \o <<"Embedding", "Done">>
  /\ UNCHANGED <<item_path, item_env, notStage>>

NextStages ==
  \/ FormatDispatch
  \/ MetadataRead
  \/ StandardOrHeifDecode
  \/ RawDecode
  \/ ToneMatch
  \/ Orient
  \/ Hash
  \/ Thumbnails
  \/ Embedding

SpecStages == InitStages /\ [][NextStages]_vars

\* the stages that the state machine of the specification allows after stage s
AllowedAfter(s) ==
  CASE s = "Init" -> {"MetadataRead"}
    [] s = "MetadataRead" -> {"FormatDispatch", "Failed"}
    [] s = "FormatDispatch" ->
         {"StandardDecode", "HighEfficiencyDecode", "RawDecode", "Failed"}
    [] s \in {"StandardDecode", "HighEfficiencyDecode"} -> {"Orient", "Failed"}
    [] s = "RawDecode" -> {"ToneMatch", "Orient", "Failed"}
    [] s = "ToneMatch" -> {"Orient", "Failed"}
    [] s = "Orient" -> {"Hash", "Failed"}
    [] s = "Hash" -> {"Thumbnails", "Failed"}
    [] s = "Thumbnails" -> {"Embedding", "Failed"}
    [] s = "Embedding" -> {"Done", "Failed"}
    [] OTHER -> {}

\* C18: the stages of an item follow one another in the order Init,
\* MetadataRead, FormatDispatch, one decode stage, Orient, hash, thumbnails,
\* embedding, Done; a failing stage is followed by Failed; nothing follows
\* Done or Failed.
C18_StageOrder ==
  \A k \in 1..Len(stages) :
    stages[k] \in AllowedAfter(IF k = 1 THEN "Init" ELSE stages[k - 1])

\* the items of process_photo and process_photos_batch whose record is
\* collected and whose decode stage failed after the filesystem metadata and
\* the capture metadata were read
DecodeFailed(i) ==
  /\ i \in Produced
  /\ Answer(i).fs.ok
  /\ \/ /\ detect_file_type(file_paths[i]) \in {"Heif", "Standard"}
        /\ Answer(i).decode.kind = "err"
     \/ /\ detect_file_type(file_paths[i]) = "Raw"
        /\ Answer(i).raw.fail # "none"

\* C19: the failed record of a standard or HEIF decode failure and of every
\* RAW failure carries the capture metadata extracted before the failure, and
\* the name, the size and the timestamps read before it.
C19_PartialDataKept ==
  \A i \in Items :
    DecodeFailed(i)
    => /\ ~Rec(i).success
       /\ Rec(i).exif = Answer(i).exif
       /\ Rec(i).name = NameOf(file_paths[i])
       /\ Rec(i).size = Answer(i).fs.len
       /\ Rec(i).created_at = Millis(Answer(i).fs.created)
       /\ Rec(i).modified_at = Millis(Answer(i).fs.modified)

C19_Witness ==
  /\ entry = "process_photo" /\ phase = "returned"
  /\ DecodeFailed(1)
  /\ Answer(1).raw.fail = "buffer"
  /\ Answer(1).exif = Some([orientation |-> Some(6)])
  /\ output[1].exif = Some([orientation |-> Some(6)])
  /\ output[1].size = 2048 /\ output[1].created_at = 0 /\ output[1].modified_at = 2000

\* the RAW items of process_photo and process_photos_batch whose record is
\* collected and whose filesystem metadata was read
RawProduced(i) ==
  /\ i \in Produced
  /\ detect_file_type(file_paths[i]) = "Raw"
  /\ Answer(i).fs.ok

\* C20: a RAW item one of whose stages fails (file read, container open,
\* unpack, process, buffer) has success false, raw_status "failed", no width
\* and no height, and an error that is the message of that stage and of no
\* other, equal to raw_error; a RAW item whose stages all succeed succeeds
\* whether its preview is absent, too small or large enough.
C20_RawFailures ==
  \A i \in Items :
    RawProduced(i)
    => IF Answer(i).raw.fail # "none"
       THEN /\ ~Rec(i).success
            /\ Rec(i).raw_status = Some("failed")
            /\ Rec(i).width = None /\ Rec(i).height = None
            /\ IsSome(Rec(i).error) /\ Rec(i).raw_error = Rec(i).error
            /\ \A k \in 1..Len(RawStages) :
                 Rec(i).error = Some(RawErrorOf(RawStages[k]))
                   <=> RawStages[k] = Answer(i).raw.fail
       ELSE /\ Rec(i).success /\ Rec(i).error = None
            /\ Rec(i).raw_status = Some("converted")

C20_Witness ==
  /\ entry = "process_photo" /\ phase = "returned"
  /\ RawProduced(1)
  /\ Answer(1).raw.fail = "unpack"
  /\ Answer(1).preview = Some([w |-> 1200, h |-> 800, level |-> 2])
  /\ output[1].error = Some(<<"Failed to unpack RAW: ", "e">>)
  /\ output[1].raw_status = Some("failed")
  /\ output[1].raw_format = Some(<<"C", "R", "2">>)

----------------------------------------------------------------------------
(* The closest target level (SpecTone) *)

SourceCdf == histogram_to_cdf(srcHist)
TargetCdf == histogram_to_cdf(tgtHist)

\* the target level j > 0 brackets the source level i: the target CDF is below
\* the source value at j - 1 and not below it at j
Brackets(j, i) ==
  Less(TargetCdf[j - 1], SourceCdf[i]) /\ ~Less(TargetCdf[j], SourceCdf[i])

\* C21: for every source level i, curve[i] is a target level whose CDF value
\* is at least as close to the source CDF value of i as that of every other
\* level; and where level j is the lowest one whose target value is not below
\* the source value, the level j - 1 is chosen only when it is strictly
\* closer, so that a tie goes to j, the higher index.
C21_ClosestLevel ==
  Built =>
    \A i \in LevelSet :
      /\ \A j \in LevelSet : ~CloserTo(SourceCdf[i], TargetCdf[j], TargetCdf[curve[i]])
      /\ \A j \in LevelSet \ {0} :
           Brackets(j, i) =>
             curve[i] = IF CloserTo(SourceCdf[i], TargetCdf[j - 1], TargetCdf[j])
                        THEN j - 1 ELSE j

\* a tie between two neighbouring levels was resolved to the higher one, and
\* elsewhere the lower neighbour was chosen because it is closer
C21_Witness ==
  /\ Built
  /\ \E i \in LevelSet, j \in LevelSet \ {0} :
       /\ Brackets(j, i)
       /\ ~CloserTo(SourceCdf[i], TargetCdf[j - 1], TargetCdf[j])
       /\ ~CloserTo(SourceCdf[i], TargetCdf[j], TargetCdf[j - 1])
       /\ curve[i] = j
  /\ \E i \in LevelSet, j \in LevelSet \ {0} :
       Brackets(j, i) /\ curve[i] = j - 1

----------------------------------------------------------------------------
(* Monotonicity of the tone curve (SpecTone) *)

\* C27: the tone curve built from the CDFs of two histograms is monotone
\* non-decreasing, curve[i] <= curve[i + 1] for every level i below the last,
\* so that two levels a <= b of a channel are mapped to curve[a] <= curve[b].
C27_MonotoneCurve ==
  Built =>
    /\ \A i \in LevelSet \ {Levels - 1} : curve[i] <= curve[i + 1]
    /\ \A a, b \in LevelSet : a <= b => curve[a] <= curve[b]

\* a curve that rises at one level, stays flat at another and moves a level
\* away from itself
C27_Witness ==
  /\ Built
  /\ \E i \in LevelSet \ {Levels - 1} : curve[i] < curve[i + 1]
  /\ \E i \in LevelSet \ {Levels - 1} : curve[i] = curve[i + 1]
  /\ \E i \in LevelSet : curve[i] # i
  /\ srcHist # tgtHist

----------------------------------------------------------------------------
(* Decoder selection against classification (SpecClassify) *)

\* C28: decoder selection agrees with classification: every path that
\* detect_file_type finds to be Heif is decoded by decode_heif and every path
\* it finds to be Standard by the standard decoder, is_heif_file and
\* detect_file_type giving the same answer for every path that reaches
\* process_standard_image.
C28_DecoderAgrees ==
  IsSome(decoder) =>
    /\ Unwrap(decoder) = "decode_heif" <=> detect_file_type(query_path) = "Heif"
    /\ is_heif_file(query_path) <=> detect_file_type(query_path) = "Heif"

----------------------------------------------------------------------------
(* The histogram sampler on its own: the pixels of a raster are counted     *)

MaxStride == 5   \* the largest quotient total_pixels div 500000 of a raster

\* the rasters sampled: a multiple of the target up to MaxStride times, plus
\* an offset at the start, in the middle or at the end of the range below the
\* next multiple
SampleOffsets ==
  {0, 1, 2, 3, 249999, 250000, 250001, 499997, 499998, 499999}
SampleTotals == { q * 500000 + r : q \in 0..MaxStride, r \in SampleOffsets }

InitSample ==
  /\ raster_pixels \in SampleTotals
  /\ sample_count = None
  /\ IdleExcept("sample")

\* compute_rgb_histograms_sampled: each channel counts the sampled pixels
ComputeHistograms ==
  /\ sample_count = None
  /\ sample_count' = Some(SampledPixels(raster_pixels))
  /\ UNCHANGED <<raster_pixels, notSample>>

NextSample == ComputeHistograms

SpecSample == InitSample /\ [][NextSample]_vars

\* C25, as claimed: the histogram sampler counts at most 500,000 pixels per
\* channel, for every number of pixels, those between 500,001 and 999,999
\* included.
C25_AtMostTarget ==
  IsSome(sample_count) => Unwrap(sample_count) <= 500000

\* C25, amended: the sampler counts ceil(total_pixels / stride) pixels per
\* channel, which is fewer than 1,000,000: every pixel of a raster of at most
\* 500,000 pixels, exactly 500,000 of a raster whose size is a multiple of
\* 500,000, and more than 500,000 of every other raster.
C25_BelowTwiceTarget ==
  IsSome(sample_count) =>
    LET stride == IF raster_pixels \div 500000 > 1 THEN raster_pixels \div 500000 ELSE 1
        count == Unwrap(sample_count)
    IN /\ count < 1000000
       /\ (count - 1) * stride < raster_pixels /\ raster_pixels <= count * stride
       /\ raster_pixels <= 500000 => count = raster_pixels
       /\ (raster_pixels > 500000 /\ raster_pixels % 500000 = 0) => count = 500000
       /\ (raster_pixels > 500000 /\ raster_pixels % 500000 # 0) => count > 500000

\* every one of 999,999 pixels is counted
C25_Witness ==
  raster_pixels = 999999 /\ sample_count = Some(999999)

----------------------------------------------------------------------------
(* The dimensions reported against the raster hashed (Spec) *)

\* the raster from which the perceptual hash of a successful record was made
HashedRaster(r) == Unwrap(r.phash)[2]

\* C26: every successful record, of the standard or HEIF path and of the RAW
\* path alike, reports as width and height the dimensions of the
\* orientation-corrected raster from which its hash and thumbnails were made.
C26_OrientedDimensions ==
  \A i \in Produced :
    Rec(i).success =>
      /\ Rec(i).width = Some(Width(HashedRaster(Rec(i))))
      /\ Rec(i).height = Some(Height(HashedRaster(Rec(i))))

----------------------------------------------------------------------------
(* One item followed statement by statement through process_photo_internal: *)
(* the allocations that are live, the thumbnail files written and the       *)
(* embedding requests made.  The allocations are named after the bindings   *)
(* of the code; the two reads of the file are file_data_1 and file_data_2.  *)

\* the relative path that goes with the path followed
RunRelative == RelCatalogue[CHOOSE k \in 1..Len(PathCatalogue) : PathCatalogue[k] = run_path]

InitRun ==
  /\ run_path \in {PathCatalogue[k] : k \in 1..Len(PathCatalogue)}
  /\ run_env \in {e \in Envs : e.exif = EnvOk.exif /\ e.fs \in {EnvOk.fs, EnvNoFile.fs}}
  /\ pc = "dispatch"
  /\ memory = {}
  /\ written = <<>>
  /\ requests = <<>>
  /\ run_result = None
  /\ IdleExcept("run")

\* a return: the record carries the success flag and every binding is dropped
RunReturn(success) ==
  /\ pc' = "returned"
  /\ memory' = {}
  /\ run_result' = Some(success)

\* process_photo_internal: the Unsupported arm returns its record at once
RunDispatch ==
  /\ pc = "dispatch"
  /\ IF detect_file_type(run_path) = "Unsupported"
     THEN RunReturn(FALSE)
     ELSE pc' = "metadata" /\ UNCHANGED <<memory, run_result>>
  /\ UNCHANGED <<run_path, run_env, written, requests, notRun>>

\* process_standard_image, process_raw_file: fs::metadata, Err returns
RunMetadata ==
  /\ pc = "metadata"
  /\ IF ~run_env.fs.ok
     THEN RunReturn(FALSE)
     ELSE /\ pc' = IF detect_file_type(run_path) = "Raw" THEN "read1" ELSE "decode"
          /\ UNCHANGED <<memory, run_result>>
  /\ UNCHANGED <<run_path, run_env, written, requests, notRun>>

\* process_standard_image: the decode and apply_orientation; Err returns the
\* failed record, a panic unwinds without a record
RunDecode ==
  /\ pc = "decode"
  /\ CASE run_env.decode.kind = "ok" ->
            pc' = "hash" /\ memory' = {"img"} /\ UNCHANGED run_result
       [] run_env.decode.kind = "err" -> RunReturn(FALSE)
       [] OTHER -> pc' = "unwound" /\ memory' = {} /\ UNCHANGED run_result
  /\ UNCHANGED <<run_path, run_env, written, requests, notRun>>

\* process_raw_complete_internal, phase 1: fs::read
Phase1Read ==
  /\ pc = "read1"
  /\ IF run_env.raw.fail = "read1"
     THEN RunReturn(FALSE)
     ELSE pc' = "preview" /\ memory' = memory \cup {"file_data_1"} /\ UNCHANGED run_result
  /\ UNCHANGED <<run_path, run_env, written, requests, notRun>>

\* variant: the bindings of phase 1 outlive its block
Phase1ScopeLeak(live) == live

\* the end of the block of phase 1: file_data and raw are dropped
Phase1ScopeEnd(live) == live \ {"file_data_1", "raw_1"}

\* phase 1: RawImage::open and extract_preview_with_jpeg; the block yields the
\* decoded preview and the preview decoded again for the embedding
Phase1Preview ==
  /\ pc = "preview"
  /\ IF run_env.raw.fail = "open1"
     THEN RunReturn(FALSE)
     ELSE /\ pc' = "read2"
          /\ memory' = Phase1ScopeEnd(
                         memory \cup {"raw_1"}
                           \cup (IF IsSome(run_env.preview)
                                 THEN {"preview_rgb", "preview_for_clip"} ELSE {}))
          /\ UNCHANGED run_result
  /\ UNCHANGED <<run_path, run_env, written, requests, notRun>>

\* phase 2: fs::read again, RawImage::open, unpack, process, the image buffer
Phase2Decode ==
  /\ pc = "read2"
  /\ IF run_env.raw.fail # "none"
     THEN RunReturn(FALSE)
     ELSE /\ pc' = "drop"
          /\ memory' = memory \cup {"file_data_2", "raw_2", "processed", "rgb_img"}
          /\ UNCHANGED run_result
  /\ UNCHANGED <<run_path, run_env, written, requests, notRun>>

\* drop(processed); drop(raw); drop(file_data)
DropLargeAllocations ==
  /\ pc = "drop"
  /\ pc' = "tone"
  /\ memory' = memory \ {"processed", "raw_2", "file_data_2"}
  /\ UNCHANGED <<run_path, run_env, written, requests, run_result, notRun>>

\* variant: the decoded preview is kept after the curves are applied
KeepPreview(live) == live

\* drop(preview_rgb)
DropPreview(live) == live \ {"preview_rgb"}

\* histogram matching where the preview allows it, drop(preview_rgb), the
\* conversion to DynamicImage and the orientation
RunToneMatch ==
  /\ pc = "tone"
  /\ pc' = "hash"
  /\ memory' = (DropPreview(memory) \ {"rgb_img"}) \cup {"dynamic_img"}
  /\ UNCHANGED <<run_path, run_env, written, requests, run_result, notRun>>

\* generate_phash_from_image(&img)
RunHash ==
  /\ pc = "hash"
  /\ pc' = ThumbnailSizeNames[1]
  /\ UNCHANGED <<run_path, run_env, memory, written, requests, run_result, notRun>>

\* variant: the loop goes on to the next size after a failure
ThumbnailErrorIgnored(k, failed) ==
  IF k = Len(ThumbnailSizeNames) THEN "embed" ELSE ThumbnailSizeNames[k + 1]

\* generate_all_thumbnails_internal: the ? after generate_thumbnail_from_image
\* returns at the first Err, which the caller logs as a warning; otherwise the
\* loop goes on to the next size
AfterThumbnail(k, failed) ==
  IF failed \/ k = Len(ThumbnailSizeNames) THEN "embed" ELSE ThumbnailSizeNames[k + 1]

\* generate_thumbnail_from_image for the size the loop is at
WriteThumbnail ==
  \E k \in 1..Len(ThumbnailSizeNames) :
    /\ pc = ThumbnailSizeNames[k]
    /\ written' = IF run_env.thumb = k THEN written
                  ELSE Append(written, <<thumbnails_dir, ThumbnailSizeNames[k],
                                         with_extension_empty(RunRelative), ".webp">>)
    /\ pc' = AfterThumbnail(k, run_env.thumb = k)
    /\ UNCHANGED <<run_path, run_env, memory, requests, run_result, notRun>>

\* variant: the raster is always the one embedded
EmbeddingInputRaster(live) == IF "dynamic_img" \in live THEN "dynamic_img" ELSE "img"

\* the argument of generate_clip_embedding_from_image: preview_for_clip when
\* it is Some, the processed image otherwise; img on the standard path
EmbeddingInput(live) ==
  IF "preview_for_clip" \in live THEN "preview_for_clip"
  ELSE IF "dynamic_img" \in live THEN "dynamic_img" ELSE "img"

\* variant: the item fails when the provider gives no embedding
SuccessNeedsEmbedding(available) == available

\* the record built after the artifacts has success: true, whatever the
\* provider answered
SuccessAfterArtifacts(available) == TRUE

\* generate_clip_embedding_from_image and the successful record
RunEmbed ==
  /\ pc = "embed"
  /\ requests' = Append(requests, EmbeddingInput(memory))
  /\ RunReturn(SuccessAfterArtifacts(run_env.clip))
  /\ UNCHANGED <<run_path, run_env, written, notRun>>

NextRun ==
  \/ RunDispatch
  \/ RunMetadata
  \/ RunDecode
  \/ Phase1Read
  \/ Phase1Preview
  \/ Phase2Decode
  \/ DropLargeAllocations
  \/ RunToneMatch
  \/ RunHash
  \/ WriteThumbnail
  \/ RunEmbed

SpecRun == InitRun /\ [][NextRun]_vars

----------------------------------------------------------------------------
(* Properties of the run of one item (SpecRun) *)

RunIsRaw == detect_file_type(run_path) = "Raw"
ThumbnailPositions == {ThumbnailSizeNames[k] : k \in 1..Len(ThumbnailSizeNames)}
PreviewAllocations == {"preview_rgb", "preview_for_clip"}

\* C22: a RAW item that succeeds has made exactly one embedding request, from
\* the camera-embedded preview when one was extracted and decoded and from the
\* oriented, tone-corrected raster when none was; no request is made before
\* the hash and the thumbnails are done, and the run returns with the request,
\* so that nothing uses the raster after it.
C22_EmbeddingInput ==
  RunIsRaw =>
    /\ run_result = Some(TRUE) =>
         requests = << IF IsSome(run_env.preview) THEN "preview_for_clip"
                       ELSE "dynamic_img" >>
    /\ requests # <<>> => pc = "returned" /\ Len(requests) = 1

\* a RAW item without a preview has embedded its raster
C22_Witness ==
  /\ RunIsRaw /\ run_result = Some(TRUE)
  /\ run_env.preview = None /\ requests = <<"dynamic_img">>

\* C23: the file bytes read for the preview extraction are never live
\* together with the file bytes of the second read or with the decoded
\* raster, and the file bytes of the second read are released before tone
\* matching starts.
C23_TwoPhaseRead ==
  /\ "file_data_1" \in memory
     => memory \cap {"file_data_2", "raw_2", "processed", "rgb_img", "dynamic_img"} = {}
  /\ pc \in {"tone", "hash", "embed"} \cup ThumbnailPositions
     => memory \cap {"file_data_1", "file_data_2"} = {}

\* the second read is live next to the decoded raster and the preview, the
\* first read is not
C23_Witness ==
  /\ pc = "drop"
  /\ {"file_data_2", "rgb_img", "preview_rgb"} \subseteq memory
  /\ "file_data_1" \notin memory

\* C24, as claimed: no part of the preview extracted from the RAW container
\* is live while the perceptual hash and the thumbnails are generated.
C24_PreviewDiscarded ==
  pc \in {"hash"} \cup ThumbnailPositions => memory \cap PreviewAllocations = {}

\* C24, amended: the decoded preview used for the histograms is dropped once
\* the curves are built and applied and is not live while the hash and the
\* thumbnails are generated; the preview decoded for the embedding stays live
\* through both, until the embedding request takes it.
C24_HistogramPreviewDiscarded ==
  /\ pc \in {"hash", "embed"} \cup ThumbnailPositions => "preview_rgb" \notin memory
  /\ (RunIsRaw /\ IsSome(run_env.preview) /\ pc \in {"hash", "embed"} \cup ThumbnailPositions)
     => "preview_for_clip" \in memory
  /\ pc = "returned" => memory = {}

\* the thumbnails of a RAW item are being written while the preview kept for
\* the embedding is live
C24_Witness ==
  /\ RunIsRaw /\ pc = ThumbnailSizeNames[2] /\ Len(written) = 1
  /\ memory = {"dynamic_img", "preview_for_clip"}

\* the thumbnail files of the item, in the order of the sizes
ThumbnailFile(k) ==
  <<thumbnails_dir, ThumbnailSizeNames[k], with_extension_empty(RunRelative), ".webp">>

\* C29: the thumbnails of an item are written in the order tiny, small,
\* medium, large; when a size k fails no later size is written and the sizes
\* before k stay written; the files written are those that
\* generate_all_thumbnails_internal yields as a whole.
C29_ThumbnailOrder ==
  /\ \A j \in 1..Len(written) : written[j] = ThumbnailFile(j)
  /\ run_env.thumb > 0 => Len(written) < run_env.thumb
  /\ (pc = "embed" \/ run_result = Some(TRUE))
     => /\ Len(written) = IF run_env.thumb = 0 THEN Len(ThumbnailSizeNames)
                          ELSE run_env.thumb - 1
        /\ {written[j] : j \in 1..Len(written)}
             = generate_all_thumbnails_internal(RunRelative, run_env.thumb).files

\* the third size failed: the first two are written and the fourth is not
C29_Witness ==
  /\ pc = "returned" /\ run_env.thumb = 3
  /\ written = <<ThumbnailFile(1), ThumbnailFile(2)>>

\* C30: an item whose record has success false has written no thumbnail file
\* and made no embedding request, on every failure path.
C30_FailureHasNoArtifacts ==
  run_result = Some(FALSE) => written = <<>> /\ requests = <<>>

\* a RAW item failed in its second phase, after its preview was extracted
C30_Witness ==
  /\ run_result = Some(FALSE) /\ RunIsRaw
  /\ run_env.raw.fail = "unpack" /\ IsSome(run_env.preview)
  /\ written = <<>> /\ requests = <<>>

====
